---- MODULE Spec2Model ----
(***************************************************************************)
(* Model of upstream_utils/one_day.py: the circular ordering of a day's    *)
(* recordings (circular_sort), the projection of burst intervals onto the  *)
(* running sample cursor (find_bursts) and the per-day assembly loop       *)
(* (one_day).  Strings are tuples of one-character strings so that the     *)
(* regular-expression searches and the time parsers are computed, not      *)
(* assumed.                                                                *)
(***************************************************************************)
EXTENDS Integers, Sequences, FiniteSets, TLC

VARIABLES
  files,          \* station_files: the listing filtered by station
  time,           \* the offset "HHMMSS"
  burst_list,     \* None or the day's interval strings
  pc,             \* "start", "loop", "done", "exit" (exit(0)), "raised"
  err,            \* what ended the run
  pattern,        \* the pattern circular_sort settled on: "A", "B", "none"
  sorted_files,
  k,              \* position of the download loop in sorted_files
  arrays,         \* the time-axis length nx of every array kept
  burst_indices,
  current_idx,
  seen,           \* the arguments of every find_bursts call, in order
  trace,          \* beside each burst_indices entry: call, interval, locals
  fetched,        \* outcome of every download, in order
  total,          \* time-axis length of big_array
  request,        \* extract_bursts: station, year, month, day
  lines,          \* extract_bursts: the rows of the monthly table
  li,             \* extract_bursts: position of the loop in lines
  bursts,         \* extract_bursts: the list being built
  xpc             \* extract_bursts: "idle", "rows", "returned", "raised"

labelvars == <<request, lines, li, bursts, xpc>>

vars == <<files, time, burst_list, pc, err, pattern, sorted_files, k,
          arrays, burst_indices, current_idx, seen, trace, fetched, total,
          request, lines, li, bursts, xpc>>

\* ------------------------------------------------------------------ bounds
MaxSeqFiles == 3
MaxFiles == 2
MaxBursts == 2
MaxRows == 2

\* ------------------------------------------------------- program constants
TimeLen == 6
RATE == 4
MARGIN == 240

\* an optional value is a tuple of no or one element
None == << >>
Some(x) == <<x>>
NoMatch == << >>

DigitStr == <<"0", "1", "2", "3", "4", "5", "6", "7", "8", "9">>
DigitChars == {DigitStr[i] : i \in 1..10}

DigitVal(c) == (CHOOSE i \in 1..10 : DigitStr[i] = c) - 1

RECURSIVE ParseInt(_)
ParseInt(s) ==
  IF Len(s) = 0 THEN 0
  ELSE 10 * ParseInt(SubSeq(s, 1, Len(s) - 1)) + DigitVal(s[Len(s)])

IsNumber(s) == Len(s) > 0 /\ \A i \in 1..Len(s) : s[i] \in DigitChars

\* str.split(sep) for a one-character separator
RECURSIVE Split(_, _)
Split(s, sep) ==
  IF \A i \in 1..Len(s) : s[i] # sep THEN <<s>>
  ELSE LET p == CHOOSE i \in 1..Len(s) :
                  s[i] = sep /\ \A j \in 1..(i - 1) : s[j] # sep
       IN <<SubSeq(s, 1, p - 1)>> \o Split(SubSeq(s, p + 1, Len(s)), sep)

\* ------------------------------------------------------------- time codec
hhmmss_to_seconds(hhmmss) ==
  ParseInt(SubSeq(hhmmss, 1, 2)) * 3600
    + ParseInt(SubSeq(hhmmss, 3, 4)) * 60
    + ParseInt(SubSeq(hhmmss, 5, 6))

\* "HH:MM" or "HH:MM:SS" to seconds since midnight
ParseTimeOK(tstr) ==
  LET parts == Split(tstr, ":")
  IN Len(parts) \in {2, 3} /\ \A i \in 1..Len(parts) : IsNumber(parts[i])

parse_time_str(tstr) ==
  LET parts == Split(tstr, ":")
      h == ParseInt(parts[1])
      m == ParseInt(parts[2])
      s == IF Len(parts) = 2 THEN 0 ELSE ParseInt(parts[3])
  IN h * 3600 + m * 60 + s

\* ------------------------------------------------ regular-expression search
\* re.compile(r"_(\d{6})" + term).search(s): group(1) of the leftmost match
MatchesAt(s, p, term) ==
  /\ p + TimeLen + 1 <= Len(s)
  /\ s[p] = "_"
  /\ \A q \in 1..TimeLen : s[p + q] \in DigitChars
  /\ s[p + TimeLen + 1] = term

re_search(s, term) ==
  LET ps == {p \in 1..Len(s) : MatchesAt(s, p, term)}
  IN IF ps = {} THEN NoMatch
     ELSE LET p == CHOOSE x \in ps : \A y \in ps : x <= y
          IN SubSeq(s, p + 1, p + TimeLen)

PatternTerm(pat) == IF pat = "A" THEN "_" ELSE "i"

\* ----------------------------------------------------------- circular_sort
\* the pattern test of lines 53-67; "none" is the exit(0) branch
ChoosePattern(fs) ==
  IF re_search(fs[1], "_") # NoMatch THEN "A"
  ELSE IF re_search(fs[1], "i") # NoMatch THEN "B"
  ELSE "none"

RECURSIVE TimeFilePairs(_, _)
TimeFilePairs(fs, term) ==
  IF Len(fs) = 0 THEN << >>
  ELSE LET m == re_search(Head(fs), term)
           rest == TimeFilePairs(Tail(fs), term)
       IN IF m # NoMatch
          THEN <<[t |-> hhmmss_to_seconds(m), f |-> Head(fs)]>> \o rest
          ELSE rest

\* list.sort(key=...) is stable: an element goes after every element whose
\* key is not greater
InsertPair(sorted, x) ==
  LET n == Cardinality({i \in 1..Len(sorted) : sorted[i].t <= x.t})
  IN SubSeq(sorted, 1, n) \o <<x>> \o SubSeq(sorted, n + 1, Len(sorted))

RECURSIVE SortPairs(_)
SortPairs(ps) ==
  IF Len(ps) = 0 THEN << >>
  ELSE InsertPair(SortPairs(SubSeq(ps, 1, Len(ps) - 1)), ps[Len(ps)])

\* next((i for i, t in enumerate(times) if t >= offset_sec), 0), 1-based
RotationIdx_strict(ps, offset_sec) ==
  LET ge == {i \in 1..Len(ps) : ps[i].t > offset_sec}
  IN IF ge = {} THEN 1 ELSE CHOOSE i \in ge : \A j \in ge : i <= j

RotationIdx(ps, offset_sec) ==
  LET ge == {i \in 1..Len(ps) : ps[i].t >= offset_sec}
  IN IF ge = {} THEN 1 ELSE CHOOSE i \in ge : \A j \in ge : i <= j

Rotate_dup(ps, idx) == SubSeq(ps, idx, Len(ps)) \o SubSeq(ps, 1, idx)

Rotate(ps, idx) == SubSeq(ps, idx, Len(ps)) \o SubSeq(ps, 1, idx - 1)

circular_sort(fs, offset, pat) ==
  LET ps == SortPairs(TimeFilePairs(fs, PatternTerm(pat)))
      idx == RotationIdx(ps, hhmmss_to_seconds(offset))
      rot == Rotate(ps, idx)
  IN [i \in 1..Len(rot) |-> rot[i].f]

\* -------------------------------------------------------------- find_bursts
Max(a, b) == IF a >= b THEN a ELSE b
Min(a, b) == IF a <= b THEN a ELSE b

\* bstart_sec < file_end_sec and bend_sec >= file_start_sec, where
\* file_end_sec = file_start_sec + nx / 4 is a true (float) division:
\* both sides are multiplied by the sample rate to stay in the integers
Overlaps_floor(bstart, bend, fs, nx) ==
  bstart < fs + (nx \div RATE) /\ bend >= fs

Overlaps(bstart, bend, fs, nx) ==
  RATE * bstart < RATE * fs + nx /\ bend >= fs

ClipStart_unclipped(bstart, fs) == (bstart - fs) * RATE

ClipStart(bstart, fs) == Max(0, (bstart - fs) * RATE)

ClipEnd_unclipped(bend, fs, nx) == (bend - fs) * RATE

ClipEnd(bend, fs, nx) == Min(nx - 1, (bend - fs) * RATE)

PadStart_clamped(local, cur) == Max(0, local + cur - MARGIN)

PadStart(local, cur) == local + cur - MARGIN

PadEnd(local, cur) == local + cur + MARGIN

BurstOK(burst) ==
  LET ends == Split(burst, "-")
  IN Len(ends) = 2 /\ ParseTimeOK(ends[1]) /\ ParseTimeOK(ends[2])

BurstStart(burst) == parse_time_str(Split(burst, "-")[1])

BurstEnd(burst) == parse_time_str(Split(burst, "-")[2])

\* one pass of the loop body for an overlapping interval: the dict that is
\* appended, with the values of lines 131-132 kept beside it (j is the
\* position of the interval in burst_list)
BurstRow(burst, j, fs, nx, cur) ==
  LET lstart == ClipStart(BurstStart(burst), fs)
      lend == ClipEnd(BurstEnd(burst), fs, nx)
  IN [entry |-> [burst |-> burst,
                 start_idx |-> PadStart(lstart, cur),
                 end_idx |-> PadEnd(lend, cur)],
      j |-> j, lstart |-> lstart, lend |-> lend]

\* the loop of lines 123-139 over the intervals j..Len(bl)
RECURSIVE AlignLoop(_, _, _, _, _)
AlignLoop(bl, j, fs, nx, cur) ==
  IF j > Len(bl) THEN << >>
  ELSE LET b == bl[j]
           rest == AlignLoop(bl, j + 1, fs, nx, cur)
       IN IF Overlaps(BurstStart(b), BurstEnd(b), fs, nx)
          THEN <<BurstRow(b, j, fs, nx, cur)>> \o rest
          ELSE rest

Entries(rows) == [x \in 1..Len(rows) |-> rows[x].entry]

AdvanceCursor_reset(cur, nx) == nx

AdvanceCursor(cur, nx) == cur + nx

\* the intervals in front of the first one that does not parse
GoodPrefix(bl) ==
  LET bad == {i \in 1..Len(bl) : ~BurstOK(bl[i])}
  IN IF bad = {} THEN bl
     ELSE SubSeq(bl, 1, (CHOOSE i \in bad : \A j \in bad : i <= j) - 1)

find_bursts(nx, bl, filename, results, cur) ==
  LET m == re_search(filename, "_")
  IN IF m = NoMatch
     THEN [raised |-> "AttributeError", rows |-> << >>,
           results |-> results, current_idx |-> cur]
     ELSE LET fs == hhmmss_to_seconds(m)
              good == GoodPrefix(bl)
              rows == AlignLoop(good, 1, fs, nx, cur)
          IN IF good # bl
             THEN [raised |-> "ValueError", rows |-> rows,
                   results |-> results \o Entries(rows),
                   current_idx |-> cur]
             ELSE [raised |-> "none", rows |-> rows,
                   results |-> results \o Entries(rows),
                   current_idx |-> AdvanceCursor(cur, nx)]

\* ------------------------------------------------------------------ inputs
T(a, b, c, d, e, f) == <<a, b, c, d, e, f>>

NameA(pre, hhmmss, post) == <<pre, "_">> \o hhmmss \o <<"_", post>>

NameB(pre, hhmmss) == <<pre, "_">> \o hhmmss \o <<"i">>

T000000 == T("0", "0", "0", "0", "0", "0")
T000001 == T("0", "0", "0", "0", "0", "1")
T000002 == T("0", "0", "0", "0", "0", "2")
T000003 == T("0", "0", "0", "0", "0", "3")
T000100 == T("0", "0", "0", "1", "0", "0")
T000101 == T("0", "0", "0", "1", "0", "1")

\* S_000000i_000002_ carries both patterns, with different codes
NameBoth == NameB("S", T000000) \o <<"_">> \o T000002 \o <<"_">>

\* S_00001_1 carries neither
NameNeither == <<"S", "_", "0", "0", "0", "0", "1", "_", "1">>

SeqFiles ==
  {NameA("S", T000002, "1"), NameA("S", T000001, "1"),
   NameA("S", T000002, "2"), NameA("S", T000100, "1"),
   NameB("S", T000001), NameB("S", T000003), NameBoth, NameNeither}

SeqOffsets == {T000000, T000002, T000003, T000101}

DayFiles ==
  {NameA("S", T000000, "1"), NameA("S", T000001, "1"), NameB("S", T000001)}

DayOffsets == {T000000, T000001}

NxValues == {4, 6, 9}

HMS(h1, h2, m1, m2, s1, s2) == <<h1, h2, ":", m1, m2, ":", s1, s2>>

HM(h1, h2, m1, m2) == <<h1, h2, ":", m1, m2>>

Interval(a, b) == a \o <<"-">> \o b

\* 00:00:01-00:00:00 (inverted), 00:00-00:01, 00:00:02-00:00:03
Bursts ==
  {Interval(HMS("0", "0", "0", "0", "0", "1"), HMS("0", "0", "0", "0", "0", "0")),
   Interval(HM("0", "0", "0", "0"), HM("0", "0", "0", "1")),
   Interval(HMS("0", "0", "0", "0", "0", "2"), HMS("0", "0", "0", "0", "0", "3"))}

SeqsUpTo(S, n) == UNION {[1..m -> S] : m \in 0..n}

\* ------------------------------------------------------------------- state
InitRun ==
  /\ pc = "start"
  /\ err = "none"
  /\ pattern = "none"
  /\ sorted_files = << >>
  /\ k = 0
  /\ arrays = << >>
  /\ burst_indices = << >>
  /\ current_idx = 0
  /\ seen = << >>
  /\ trace = << >>
  /\ fetched = << >>
  /\ total = 0

\* extract_bursts not called
InitNoLabels ==
  /\ request = [station |-> << >>, year |-> 0, month |-> 0, day |-> 0]
  /\ lines = << >>
  /\ li = 0
  /\ bursts = << >>
  /\ xpc = "idle"

Init ==
  /\ InitNoLabels
  /\ files \in SeqsUpTo(DayFiles, MaxFiles)
  /\ time \in DayOffsets
  /\ burst_list \in {None} \cup {Some(bl) : bl \in SeqsUpTo(Bursts, MaxBursts)}
  /\ InitRun

InitSeq ==
  /\ InitNoLabels
  /\ files \in SeqsUpTo(SeqFiles, MaxSeqFiles)
  /\ time \in SeqOffsets
  /\ burst_list = None
  /\ InitRun

\* ----------------------------------------------------------------- actions
\* one_day, lines 181-184: no file of the station in the listing
NoFiles ==
  /\ pc = "start"
  /\ Len(files) = 0
  /\ pc' = "exit"
  /\ err' = "NoFiles"
  /\ UNCHANGED <<files, time, burst_list, pattern, sorted_files, k, arrays,
                 burst_indices, current_idx, seen, trace, fetched, total>>
  /\ UNCHANGED labelvars

\* one_day, line 186: circular_sort, then lines 188-190
Sequence ==
  /\ pc = "start"
  /\ Len(files) > 0
  /\ LET pat == ChoosePattern(files)
     IN /\ pattern' = pat
        /\ IF pat = "none"
           THEN /\ pc' = "exit"
                /\ err' = "NoMatch"
                /\ UNCHANGED <<sorted_files, k>>
           ELSE /\ pc' = "loop"
                /\ err' = err
                /\ sorted_files' = circular_sort(files, time, pat)
                /\ k' = 1
  /\ UNCHANGED <<files, time, burst_list, arrays, burst_indices,
                 current_idx, seen, trace, fetched, total>>
  /\ UNCHANGED labelvars

\* one loop pass whose download returns an array with nx time samples
FetchOk ==
  /\ pc = "loop"
  /\ k <= Len(sorted_files)
  /\ \E nx \in NxValues :
       /\ fetched' = Append(fetched, "ok")
       /\ IF burst_list = None
          THEN /\ arrays' = Append(arrays, nx)
               /\ k' = k + 1
               /\ UNCHANGED <<pc, err, burst_indices, current_idx, seen, trace>>
          ELSE \E r \in {find_bursts(nx, burst_list[1], sorted_files[k],
                                      burst_indices, current_idx)} :
                  /\ seen' = Append(seen, [file |-> sorted_files[k],
                                           nx |-> nx,
                                           cursor |-> current_idx])
                  /\ burst_indices' = r.results
                  /\ trace' = trace \o
                       [x \in 1..Len(r.rows) |->
                          [call |-> Len(seen) + 1, j |-> r.rows[x].j,
                           lstart |-> r.rows[x].lstart,
                           lend |-> r.rows[x].lend]]
                  /\ current_idx' = r.current_idx
                  /\ IF r.raised = "none"
                     THEN /\ arrays' = Append(arrays, nx)
                          /\ k' = k + 1
                          /\ UNCHANGED <<pc, err>>
                     ELSE /\ pc' = "raised"
                          /\ err' = r.raised
                          /\ UNCHANGED <<arrays, k>>
  /\ UNCHANGED <<files, time, burst_list, pattern, sorted_files, total>>
  /\ UNCHANGED labelvars

\* one loop pass whose download raises (HTTP status, gzip or FITS error):
\* nothing in one_day catches it
FetchFail ==
  /\ pc = "loop"
  /\ k <= Len(sorted_files)
  /\ fetched' = Append(fetched, "fail")
  /\ pc' = "raised"
  /\ err' = "FetchError"
  /\ UNCHANGED <<files, time, burst_list, pattern, sorted_files, k, arrays,
                 burst_indices, current_idx, seen, trace, total>>
  /\ UNCHANGED labelvars

RECURSIVE SumSeq(_)
SumSeq(s) == IF Len(s) = 0 THEN 0 ELSE Head(s) + SumSeq(Tail(s))

\* the time-axis length of np.concatenate(arrays, axis=1)
ConcatLen(as) == SumSeq(as)

\* one_day, lines 202-208
Finish ==
  /\ pc = "loop"
  /\ k > Len(sorted_files)
  /\ IF Len(arrays) = 0
     THEN /\ pc' = "raised"
          /\ err' = "NoValidData"
          /\ total' = total
     ELSE /\ pc' = "done"
          /\ err' = err
          /\ total' = ConcatLen(arrays)
  /\ UNCHANGED <<files, time, burst_list, pattern, sorted_files, k, arrays,
                 burst_indices, current_idx, seen, trace, fetched>>
  /\ UNCHANGED labelvars

Next == NoFiles \/ Sequence \/ FetchOk \/ FetchFail \/ Finish

Spec == Init /\ [][Next]_vars

NextSeq == NoFiles \/ Sequence

SpecSeq == InitSeq /\ [][NextSeq]_vars

\* ----------------------------------------------------------- extract_bursts
TAB == "\t"

Whitespace == {" ", "\t", "\n", "\r"}

\* str.strip()
RECURSIVE Strip(_)
Strip(s) ==
  IF Len(s) = 0 THEN s
  ELSE IF s[1] \in Whitespace THEN Strip(Tail(s))
  ELSE IF s[Len(s)] \in Whitespace THEN Strip(SubSeq(s, 1, Len(s) - 1))
  ELSE s

StartsWith(s, c) == Len(s) > 0 /\ s[1] = c

\* f"{n:0{width}d}"
RECURSIVE Digits(_)
Digits(n) ==
  IF n < 10 THEN <<DigitStr[n + 1]>>
  ELSE Digits(n \div 10) \o <<DigitStr[(n % 10) + 1]>>

RECURSIVE ZeroPad(_, _)
ZeroPad(s, width) == IF Len(s) >= width THEN s ELSE ZeroPad(<<"0">> \o s, width)

FormatInt(n, width) == ZeroPad(Digits(n), width)

\* line 237
DateOf(req) ==
  FormatInt(req.year, 4) \o FormatInt(req.month, 2) \o FormatInt(req.day, 2)

RECURSIVE JoinFields(_)
JoinFields(fields) ==
  IF Len(fields) = 1 THEN fields[1]
  ELSE fields[1] \o <<TAB>> \o JoinFields(Tail(fields))

\* one pass of the loop of lines 238-250: "skip" (continue or no append),
\* "append" of the time range, or "raise" when the 4-name unpacking of
\* line 246 gets another number of fields
RowOutcome(line, station, date) ==
  IF Strip(line) = << >> \/ StartsWith(line, "#") \/ StartsWith(line, "-")
  THEN [kind |-> "skip", value |-> << >>]
  ELSE LET parts == Split(line, TAB)
       IN IF Len(parts) < 4 THEN [kind |-> "skip", value |-> << >>]
          ELSE IF Len(parts) # 4 THEN [kind |-> "raise", value |-> << >>]
          ELSE IF parts[1] = date
                  /\ \E e \in {Strip(x) : x \in
                                 {Split(parts[4], ",")[i] :
                                    i \in 1..Len(Split(parts[4], ","))}} :
                       e = station
          THEN [kind |-> "append", value |-> parts[2]]
          ELSE [kind |-> "skip", value |-> << >>]

D20250101 == <<"2", "0", "2", "5", "0", "1", "0", "1">>
D20250102 == <<"2", "0", "2", "5", "0", "1", "0", "2">>
Range1 == Interval(HM("0", "0", "0", "0"), HM("0", "0", "0", "1"))
Range2 == Interval(HM("0", "3", "0", "0"), HM("0", "3", "0", "1"))
TypeIII == <<"I", "I", "I">>

\* blank, whitespace only, comment, separator, three fields, station alone,
\* station in a list with blanks, station as part of another name, another
\* day, and a fifth (empty) field after a trailing tab
Rows ==
  {<< >>,
   <<" ", " ">>,
   <<"#", "D", "a", "t", "e">>,
   <<"-", "-", "-">>,
   JoinFields(<<D20250101, Range1, TypeIII>>),
   JoinFields(<<D20250101, Range1, TypeIII, <<"S">>>>),
   JoinFields(<<D20250101, Range2, TypeIII, <<"T", ",", " ", "S", " ">>>>),
   JoinFields(<<D20250101, Range1, TypeIII, <<"S", "T">>>>),
   JoinFields(<<D20250102, Range2, TypeIII, <<"S">>>>),
   JoinFields(<<D20250101, Range2, TypeIII, <<"S">>, << >>>>)}

Requests ==
  {[station |-> st, year |-> 2025, month |-> 1, day |-> d] :
     st \in {<<"S">>, <<"T">>}, d \in {1, 2}}

\* one_day not called
InitLabels ==
  /\ request \in Requests
  /\ lines \in SeqsUpTo(Rows, MaxRows)
  /\ li = 1
  /\ bursts = << >>
  /\ xpc = "rows"
  /\ files = << >>
  /\ time = T000000
  /\ burst_list = None
  /\ InitRun

\* one pass of the loop of lines 238-250
ExtractRow ==
  /\ xpc = "rows"
  /\ li <= Len(lines)
  /\ \E r \in {RowOutcome(lines[li], request.station, DateOf(request))} :
       /\ bursts' = IF r.kind = "append" THEN Append(bursts, r.value)
                    ELSE bursts
       /\ IF r.kind = "raise"
          THEN xpc' = "raised" /\ li' = li
          ELSE xpc' = xpc /\ li' = li + 1
  /\ UNCHANGED <<request, lines>>
  /\ UNCHANGED <<files, time, burst_list, pc, err, pattern, sorted_files, k,
                 arrays, burst_indices, current_idx, seen, trace, fetched,
                 total>>

\* line 252
ExtractReturn ==
  /\ xpc = "rows"
  /\ li > Len(lines)
  /\ xpc' = "returned"
  /\ UNCHANGED <<request, lines, li, bursts>>
  /\ UNCHANGED <<files, time, burst_list, pc, err, pattern, sorted_files, k,
                 arrays, burst_indices, current_idx, seen, trace, fetched,
                 total>>

NextLabels == ExtractRow \/ ExtractReturn

SpecLabels == InitLabels /\ [][NextLabels]_vars

\* ------------------------------------------------------ cursor and aligner
Range(s) == {s[i] : i \in 1..Len(s)}

Count(s, f) == Cardinality({i \in 1..Len(s) : s[i] = f})

Clamp(v, lo, hi) == IF v < lo THEN lo ELSE IF v > hi THEN hi ELSE v

\* start second of the file of the c-th aligner call
CallStart(c) == hhmmss_to_seconds(re_search(seen[c].file, "_"))

\* the overlap test as section 4.3 words it, for call c and interval j
PairOverlaps(c, j) ==
  /\ (BurstStart(burst_list[1][j]) - CallStart(c)) * 4 < seen[c].nx
  /\ BurstEnd(burst_list[1][j]) >= CallStart(c)

PairBefore(a, b) == a.call < b.call \/ (a.call = b.call /\ a.j < b.j)

C1_CursorState ==
  burst_list # None =>
    /\ \A i \in 1..Len(seen) :
         /\ i - 1 <= Len(arrays)
         /\ seen[i].cursor = SumSeq(SubSeq(arrays, 1, i - 1))
    /\ current_idx = SumSeq(arrays)
    /\ pc = "done" => current_idx = total /\ Len(seen) = Len(arrays)

\* C1: with burst intervals present, the cursor the aligner sees for the
\* k-th decoded file is the sum of the sample counts of the files before it
\* (0 for the first), the cursor never decreases, and after the last file it
\* is the time-axis length of the concatenated series.
C1_Cursor == []C1_CursorState /\ [][current_idx' >= current_idx]_vars

C1_Witness ==
  /\ pc = "done"
  /\ burst_list # None
  /\ Len(seen) >= 2
  /\ seen[1].cursor = 0
  /\ seen[2].cursor = seen[1].nx
  /\ seen[1].nx # seen[2].nx
  /\ total = seen[1].nx + seen[2].nx

C2_State ==
  IF burst_list = None THEN burst_indices = << >>
  ELSE
    /\ Len(trace) = Len(burst_indices)
    /\ \A x \in 1..Len(trace) :
         /\ trace[x].call \in 1..Len(arrays)
         /\ trace[x].j \in 1..Len(burst_list[1])
         /\ burst_indices[x].burst = burst_list[1][trace[x].j]
         /\ PairOverlaps(trace[x].call, trace[x].j)
    /\ \A x, y \in 1..Len(trace) : x < y => PairBefore(trace[x], trace[y])
    /\ \A c \in 1..Len(arrays) : \A j \in 1..Len(burst_list[1]) :
         PairOverlaps(c, j) =>
           \E x \in 1..Len(trace) : trace[x].call = c /\ trace[x].j = j

C2_Keeps ==
  /\ Len(burst_indices') >= Len(burst_indices)
  /\ SubSeq(burst_indices', 1, Len(burst_indices)) = burst_indices

\* C2: for every file the aligner has processed and every interval of the
\* day there is exactly one entry if the interval passes the overlap test
\* and none otherwise; entries come in file order and, within a file, in
\* list order, carry the raw interval string, and are never merged, changed
\* or removed afterwards.
C2_Aligner == []C2_State /\ [][C2_Keeps]_vars

C2_Witness ==
  /\ pc = "done"
  /\ burst_list # None
  /\ Len(arrays) >= 2
  /\ \E j \in 1..Len(burst_list[1]) :
       Cardinality({x \in 1..Len(trace) : trace[x].j = j}) = Len(arrays)
  /\ \E c \in 1..Len(arrays) : \E j \in 1..Len(burst_list[1]) :
       ~PairOverlaps(c, j)

\* C3: for every interval that passed the overlap test against a file of
\* n >= 1 samples, the local indices computed by the one-sided clipping
\* equal the two-sided clamps of (burstStart - fs)*4 and (burstEnd - fs)*4
\* to 0..n-1.
C3_TwoSidedClamp ==
  burst_list # None =>
    \A x \in 1..Len(trace) :
      seen[trace[x].call].nx >= 1 =>
        /\ trace[x].lstart =
             Clamp((BurstStart(burst_list[1][trace[x].j])
                      - CallStart(trace[x].call)) * 4,
                   0, seen[trace[x].call].nx - 1)
        /\ trace[x].lend =
             Clamp((BurstEnd(burst_list[1][trace[x].j])
                      - CallStart(trace[x].call)) * 4,
                   0, seen[trace[x].call].nx - 1)

C3_Witness ==
  /\ burst_list # None
  /\ \E x \in 1..Len(trace) :
       /\ seen[trace[x].call].nx % 4 # 0
       /\ BurstEnd(burst_list[1][trace[x].j])
            < BurstStart(burst_list[1][trace[x].j])
       /\ trace[x].lend < trace[x].lstart
  /\ \E x \in 1..Len(trace) :
       /\ BurstStart(burst_list[1][trace[x].j]) < CallStart(trace[x].call)
       /\ trace[x].lstart = 0
       /\ (BurstEnd(burst_list[1][trace[x].j]) - CallStart(trace[x].call)) * 4
            > seen[trace[x].call].nx - 1
       /\ trace[x].lend = seen[trace[x].call].nx - 1

\* C4: every entry has start_idx = cursor + localStart - 240 and
\* end_idx = cursor + localEnd + 240 for the cursor before the file is
\* added, with no clamping afterwards: -240 for an interval starting at or
\* before the first sample of the first file, totalSamples - 1 + 240 for
\* one reaching the last sample of the last file.
C4_Padding ==
  burst_list # None =>
    \A x \in 1..Len(trace) :
      /\ burst_indices[x].start_idx
           = seen[trace[x].call].cursor + trace[x].lstart - 240
      /\ burst_indices[x].end_idx
           = seen[trace[x].call].cursor + trace[x].lend + 240
      /\ (/\ trace[x].call = 1
          /\ BurstStart(burst_list[1][trace[x].j]) <= CallStart(1))
           => burst_indices[x].start_idx = -240
      /\ (/\ pc = "done"
          /\ trace[x].call = Len(arrays)
          /\ (BurstEnd(burst_list[1][trace[x].j])
                - CallStart(trace[x].call)) * 4 >= seen[trace[x].call].nx - 1)
           => burst_indices[x].end_idx = total - 1 + 240

C4_Witness ==
  /\ pc = "done"
  /\ burst_list # None
  /\ Len(arrays) >= 2
  /\ \E x \in 1..Len(trace) : burst_indices[x].start_idx = -240
  /\ \E x \in 1..Len(trace) :
       /\ trace[x].call = Len(arrays)
       /\ burst_indices[x].end_idx = total + 239
  /\ \E x \in 1..Len(trace) :
       /\ trace[x].call > 1
       /\ trace[x].lstart > 0
       /\ seen[trace[x].call].cursor > 0

\* --------------------------------------------------------------- sequencer
MatchesPattern(f, pat) == re_search(f, PatternTerm(pat)) # NoMatch

\* time of day of f under the pattern the run settled on
FileTime(f) == hhmmss_to_seconds(re_search(f, PatternTerm(pattern)))

\* the positions of files that match the chosen pattern, ascending
MatchedIdx == {i \in 1..Len(files) : MatchesPattern(files[i], pattern)}

Injections(n, S) ==
  {p \in [1..n -> S] : \A a, b \in 1..n : a # b => p[a] # p[b]}

\* u lists files[p[1]], files[p[2]], ... in ascending time, equal times in
\* input order
StableSorted(u, p) ==
  /\ \A i \in 1..Len(u) : u[i] = files[p[i]]
  /\ \A i, j \in 1..Len(u) :
       i < j => \/ FileTime(u[i]) < FileTime(u[j])
                \/ FileTime(u[i]) = FileTime(u[j]) /\ p[i] < p[j]

FirstAtOrAfter(u, offset_sec) ==
  LET ge == {i \in 1..Len(u) : FileTime(u[i]) >= offset_sec}
  IN IF ge = {} THEN 1 ELSE CHOOSE i \in ge : \A j \in ge : i <= j

\* sorted_files with its last (r - 1) elements moved back to the front
Unrotated(r) ==
  LET n == Len(sorted_files)
  IN SubSeq(sorted_files, n - r + 2, n) \o SubSeq(sorted_files, 1, n - r + 1)

\* C5: when circular_sort returns, its output holds every input filename
\* that matches the chosen pattern as many times as the input does, and
\* nothing else.
C5_Permutation ==
  pc = "loop" =>
    \A f \in Range(files) \cup Range(sorted_files) :
      Count(sorted_files, f)
        = IF MatchesPattern(f, pattern) THEN Count(files, f) ELSE 0

C5_Witness ==
  /\ pc = "loop"
  /\ Len(files) = 3
  /\ Len(sorted_files) = 2
  /\ sorted_files[1] # sorted_files[2]
  /\ sorted_files # SubSeq(files, 1, 2)
  /\ sorted_files # SubSeq(files, 2, 3)

\* C6: the output is the matched filenames stable-sorted by time of day and
\* rotated to start at the first sorted position whose time is >= the
\* offset; when the offset exceeds every time the output is the sorted
\* order itself.
C6_SortedRotation ==
  pc = "loop" =>
    /\ Len(sorted_files) = Cardinality(MatchedIdx)
    /\ \E r \in 1..Len(sorted_files) :
         \E u \in {Unrotated(r)} :
           /\ r = FirstAtOrAfter(u, hhmmss_to_seconds(time))
           /\ \E p \in Injections(Len(u), MatchedIdx) : StableSorted(u, p)
    /\ (\A i \in 1..Len(sorted_files) :
          FileTime(sorted_files[i]) < hhmmss_to_seconds(time))
         => \E p \in Injections(Len(sorted_files), MatchedIdx) :
              StableSorted(sorted_files, p)

C6_Witness ==
  /\ pc = "loop"
  /\ Len(sorted_files) = 3
  /\ FileTime(sorted_files[1]) = FileTime(sorted_files[2])
  /\ sorted_files[1] # sorted_files[2]
  /\ FileTime(sorted_files[3]) < FileTime(sorted_files[1])
  /\ files[1] = sorted_files[1]
  /\ files[3] = sorted_files[2]

AnyMatches(pat) == \E i \in 1..Len(files) : MatchesPattern(files[i], pat)

\* C7: the pattern is chosen over the whole set: A whenever some filename
\* matches A, B only if none matches A (and some filename matches B).
C7_PatternOverSet ==
  (pc # "start" /\ Len(files) > 0) =>
    pattern = IF AnyMatches("A") THEN "A"
              ELSE IF AnyMatches("B") THEN "B" ELSE "none"

\* C8: circular_sort fails, reporting the URL, exactly when neither pattern
\* matches any filename of the set; otherwise it returns an ordering that
\* leaves out the filenames not matching the chosen pattern.
C8_FailsIffNoMatch ==
  (pc # "start" /\ Len(files) > 0) =>
    /\ (pc = "exit" /\ err = "NoMatch")
         <=> ~(AnyMatches("A") \/ AnyMatches("B"))
    /\ pc = "loop" =>
         \A i \in 1..Len(files) :
           ~MatchesPattern(files[i], pattern)
             => files[i] \notin Range(sorted_files)

\* ---------------------------------------------------------------- assembly
\* C9: a file whose download/decode fails is skipped and the run goes on;
\* the run aborts for want of data only if every file of the day failed.
C9_SkipFailedFile ==
  (pc = "raised" /\ err \in {"FetchError", "NoValidData"}) =>
    /\ Len(fetched) = Len(sorted_files)
    /\ \A i \in 1..Len(fetched) : fetched[i] = "fail"

\* C10: under either pattern, the aligner call completes for every file the
\* sequencer put in the ordered list.
C10_AlignerCompletes ==
  \A c \in 1..Len(seen) :
    MatchesPattern(seen[c].file, pattern) =>
      ~(c = Len(seen) /\ pc = "raised" /\ err = "AttributeError")

\* ------------------------------------------------------------- compute_snr
\* the slice burst_mask[start:end+1] that compute_snr marks for an entry
MaskStart(entry) == Max(0, entry.start_idx)

MaskEnd(entry, n_times) == Min(n_times - 1, entry.end_idx)

\* C12: for a file of n >= 1 samples and an interval with
\* burstStart <= burstEnd, the entry has start_idx <= end_idx - 480,
\* start_idx >= cursor - 240 and end_idx <= cursor + n - 1 + 240, so that the
\* range meets 0..totalSamples-1 of the assembled series (the slice
\* compute_snr marks for it is not empty).
C12_RangeBounds ==
  burst_list # None =>
    \A x \in 1..Len(trace) :
      (/\ seen[trace[x].call].nx >= 1
       /\ BurstStart(burst_indices[x].burst)
            <= BurstEnd(burst_indices[x].burst)) =>
        /\ burst_indices[x].start_idx <= burst_indices[x].end_idx - 480
        /\ burst_indices[x].start_idx >= seen[trace[x].call].cursor - 240
        /\ burst_indices[x].end_idx
             <= seen[trace[x].call].cursor + seen[trace[x].call].nx - 1 + 240
        /\ pc = "done" =>
             /\ burst_indices[x].start_idx <= total - 1
             /\ burst_indices[x].end_idx >= 0
             /\ MaskStart(burst_indices[x])
                  <= MaskEnd(burst_indices[x], total)

C12_Witness ==
  /\ pc = "done"
  /\ burst_list # None
  /\ \E x \in 1..Len(trace) :
       /\ trace[x].call = 2
       /\ seen[2].nx % 4 # 0
       /\ BurstStart(burst_indices[x].burst)
            < BurstEnd(burst_indices[x].burst)
       /\ trace[x].lstart > 0
       /\ burst_indices[x].start_idx < 0
       /\ burst_indices[x].end_idx > total - 1
       /\ MaskStart(burst_indices[x]) = 0
       /\ MaskEnd(burst_indices[x], total) = total - 1

\* ----------------------------------------------------------- burst list
FieldsOf(line) == Split(line, TAB)

\* the row is one the table reader is to take, as section 6 words it
RowQualifies(line) ==
  /\ Strip(line) # << >>
  /\ line[1] \notin {"#", "-"}
  /\ Len(FieldsOf(line)) >= 4
  /\ FieldsOf(line)[1] = DateOf(request)
  /\ \E i \in 1..Len(Split(FieldsOf(line)[4], ",")) :
       Strip(Split(FieldsOf(line)[4], ",")[i]) = request.station

RECURSIVE QualifyingRanges(_)
QualifyingRanges(ls) ==
  IF Len(ls) = 0 THEN << >>
  ELSE (IF RowQualifies(Head(ls)) THEN <<FieldsOf(Head(ls))[2]>> ELSE << >>)
         \o QualifyingRanges(Tail(ls))

\* C11: extract_bursts returns, in table order, the time-range field of
\* exactly the rows that are non-blank, do not start with '#' or '-', have
\* at least 4 tab-separated fields, carry the requested date and list the
\* requested station as a whole trimmed entry; no row aborts the call.
C11_ExtractBursts ==
  /\ xpc # "raised"
  /\ xpc = "returned" => bursts = QualifyingRanges(lines)

====
